---- MODULE Spec2Model ----
(***************************************************************************)
(* A model of github.com/wroge/esquel: the statement composition tree      *)
(* (Stmt, Expr, Prefix, Join, List, Recursive), the placeholder rewriters  *)
(* and the Query/Rows cursor helpers.                                      *)
(*                                                                         *)
(* Text is a sequence of one-character strings, so that scanning, slicing  *)
(* and trimming are computed as the Go code computes them on bytes.        *)
(* Indices keep Go's convention: IndexByte is 0-based and -1 when absent.  *)
(***************************************************************************)
EXTENDS Integers, Sequences, FiniteSets, TLC

VARIABLES
    pc,     \* position of the running call: "call" before it ran, "done" after
    call,   \* the call under way: the receiver and its arguments
    ret,    \* what the call (or the innermost call that has returned) returned
    frames, \* the activations of recursiveStatement.ToSQL under way, outermost first
    calls,  \* how many times the builder closure of a Recursive was invoked
    handle, \* the *sql.Rows the querier returned, if any
    rows,   \* the Rows[T] that Query.Rows built, if any
    local,  \* the local variables of the Query method under way
    scans   \* how many times each declared column's Scan factory was invoked

svars == <<frames, calls>>
qvars == <<handle, rows, local, scans>>
vars == <<pc, call, ret, frames, calls, handle, rows, local, scans>>

(***************************************************************************)
(* Bounds of the inputs.                                                   *)
(***************************************************************************)
MaxLen == 4     \* longest enumerated template text
MaxBind == 2    \* most child bindings of an enumerated template
MaxJoin == 3    \* most children of an enumerated Join
MaxList == 3    \* longest parameter sequence given to a List
MaxDepth == 3   \* largest depth given to Recursive
MaxText == 4    \* longest enumerated text given to a placeholder rewriter
MaxCols == 3    \* most columns a result set reports
MaxRows == 3    \* most rows a result set holds

(***************************************************************************)
(* Go's strings package, on sequences of characters.                       *)
(***************************************************************************)
\* s[i:] with a 0-based i
From(s, i) == SubSeq(s, i + 1, Len(s))

\* s[:i] with a 0-based, exclusive i
Upto(s, i) == SubSeq(s, 1, i)

\* strings.IndexByte(s, c): the 0-based index of the first c in s, or -1
IndexByte(s, c) ==
    IF \E i \in 1..Len(s) : s[i] = c
    THEN (CHOOSE i \in 1..Len(s) : s[i] = c /\ \A j \in 1..(i - 1) : s[j] # c) - 1
    ELSE -1

RECURSIVE TrimLeft(_)
TrimLeft(s) == IF Len(s) > 0 /\ s[1] = " " THEN TrimLeft(Tail(s)) ELSE s

RECURSIVE TrimRight(_)
TrimRight(s) ==
    IF Len(s) > 0 /\ s[Len(s)] = " " THEN TrimRight(SubSeq(s, 1, Len(s) - 1)) ELSE s

\* strings.TrimSpace(s); the only white space of the model's alphabet is " "
TrimSpace(s) == TrimRight(TrimLeft(s))

\* strings.Repeat(s, n)
RECURSIVE Repeat(_, _)
Repeat(s, n) == IF n <= 0 THEN <<>> ELSE s \o Repeat(s, n - 1)

(***************************************************************************)
(* Results of ToSQL: (string, []any, error).                               *)
(***************************************************************************)
NoErr == "nil"
ErrBuild == "ErrBuild"                  \* an error made by a caller's closure
ErrRecursiveDepth == "ErrRecursiveDepth"

Ok(sql, args) == [sql |-> sql, args |-> args, err |-> NoErr]
Fail(err) == [sql |-> <<>>, args |-> <<>>, err |-> err]

(***************************************************************************)
(* Statement constructors.                                                 *)
(***************************************************************************)
Nil == [kind |-> "nil"]
IsNil(s) == s.kind = "nil"

Expr(f) == [kind |-> "expr", f |-> f]
Values(f) == [kind |-> "values", f |-> f]
Stmt(sql, args) == [kind |-> "stmt", sql |-> sql, args |-> args]
Prefix(prefix, statement) == [kind |-> "prefix", prefix |-> prefix, stmt |-> statement]
Join(sep, stmts) == [kind |-> "join", sep |-> sep, stmts |-> stmts]
ListSep(sep, statement) == [kind |-> "list", sep |-> sep, stmt |-> statement]
List(statement) == ListSep(<<",">>, statement)

(***************************************************************************)
(* The closures callers hand to Expr and Values.  They are inputs of the   *)
(* library: each name stands for one closure a caller may write.           *)
(***************************************************************************)
ExprFuncs == {"none", "eq", "opt", "fail", "stray", "blank"}

\* paramStatement.ToSQL: f(param)
ExprToSQL(f, param) ==
    CASE f = "none"  -> Ok(<<>>, <<>>)
      [] f = "lit"   -> Ok(<<"a">>, <<>>)
      [] f = "eq"    -> Ok(<<"a", "?">>, <<param>>)
      [] f = "opt"   -> IF param = 0 THEN Ok(<<>>, <<>>) ELSE Ok(<<"a", "?">>, <<param>>)
      [] f = "fail"  -> Fail(ErrBuild)
      [] f = "stray" -> Ok(<<>>, <<param>>)     \* an empty fragment with an argument
      [] f = "blank" -> Ok(<<" ">>, <<param>>)  \* a fragment of one space with an argument

\* the []any a Values closure returns
ValuesFunc(f, param) ==
    CASE f = "vals0" -> <<>>
      [] f = "vals1" -> <<param>>
      [] f = "vals2" -> <<param, param>>

ValuesToSQL(f, param) ==
    LET args == ValuesFunc(f, param) IN
    IF Len(args) = 0
    THEN Ok(<<>>, <<>>)
    ELSE Ok(<<"(">> \o Tail(Repeat(<<",", "?">>, Len(args))) \o <<")">>, args)

(***************************************************************************)
(* The query side when no query runs.                                      *)
(***************************************************************************)
NoHandle == [live |-> FALSE]
NoRows == [live |-> FALSE]
NoLocal == [sql |-> <<>>, args |-> <<>>, t |-> 0, list |-> <<>>]
ColumnNames == {"a", "b", "x"}
ColumnRank(n) == CASE n = "a" -> 1 [] n = "b" -> 2 [] OTHER -> 3

QueryIdle ==
    /\ handle = NoHandle
    /\ rows = NoRows
    /\ local = NoLocal
    /\ scans = [n \in ColumnNames |-> 0]

RECURSIVE ToSQL(_, _)

(***************************************************************************)
(* templateStatement.ToSQL                                                 *)
(***************************************************************************)
\* the second loop: bindings left over once the text is consumed
RECURSIVE TemplateRest(_, _, _, _, _)
TemplateRest(t_args, param, builder, arguments, argIndex) ==
    IF argIndex >= Len(t_args)
    THEN Ok(TrimSpace(builder), arguments)
    ELSE IF IsNil(t_args[argIndex + 1])
    THEN TemplateRest(t_args, param, builder, arguments, argIndex + 1)
    ELSE LET r == ToSQL(t_args[argIndex + 1], param) IN
         IF r.err # NoErr THEN Fail(r.err)
         ELSE IF r.sql = <<>>
         THEN TemplateRest(t_args, param, builder, arguments, argIndex + 1)
         ELSE TemplateRest(t_args, param,
                           (IF Len(builder) > 0 THEN builder \o <<" ">> ELSE builder) \o r.sql,
                           arguments \o r.args, argIndex + 1)

TemplateEscapeOne(t_sql, index) == Upto(t_sql, index + 1)

\* what is written for a doubled marker found at index
TemplateEscape(t_sql, index) == Upto(t_sql, index + 2)

\* the binding index after a marker whose child gave the empty fragment
TemplateAfterEmpty(argIndex) == argIndex

TemplateKeepSpace(t_sql) == t_sql

\* the remaining text after a marker whose child gave the empty fragment
TemplateSkipSpace(t_sql) ==
    IF Len(t_sql) > 0 /\ t_sql[1] = " " THEN Tail(t_sql) ELSE t_sql

TemplateUnboundForgotten(arguments, param) == arguments

\* the arguments after a marker that has no binding
TemplateUnbound(arguments, param) == Append(arguments, param)

\* the first loop: scan the text for markers
RECURSIVE TemplateScan(_, _, _, _, _, _)
TemplateScan(t_sql, t_args, param, builder, arguments, argIndex) ==
    LET index == IndexByte(t_sql, "?") IN
    IF index < 0
    THEN TemplateRest(t_args, param, builder \o t_sql, arguments, argIndex)
    ELSE IF index < Len(t_sql) - 1 /\ t_sql[index + 2] = "?"
    THEN TemplateScan(From(t_sql, index + 2), t_args, param,
                      builder \o TemplateEscape(t_sql, index), arguments, argIndex)
    ELSE LET b1 == builder \o Upto(t_sql, index)
             rest == From(t_sql, index + 1)
         IN  IF argIndex >= Len(t_args) \/ IsNil(t_args[argIndex + 1])
             THEN TemplateScan(rest, t_args, param, b1 \o <<"?">>,
                               TemplateUnbound(arguments, param), argIndex + 1)
             ELSE LET r == ToSQL(t_args[argIndex + 1], param) IN
                  IF r.err # NoErr THEN Fail(r.err)
                  ELSE IF r.sql = <<>>
                  THEN TemplateScan(TemplateSkipSpace(rest), t_args, param, b1,
                                    arguments, TemplateAfterEmpty(argIndex))
                  ELSE TemplateScan(rest, t_args, param, b1 \o r.sql,
                                    arguments \o r.args, argIndex + 1)

TemplateToSQL(t, param) == TemplateScan(t.sql, t.args, param, <<>>, <<>>, 0)

(***************************************************************************)
(* prefixStatement.ToSQL                                                   *)
(***************************************************************************)
PrefixToSQL(f, param) ==
    IF IsNil(f.stmt) THEN Ok(<<>>, <<>>)
    ELSE LET r == ToSQL(f.stmt, param) IN
         IF r.err # NoErr THEN Fail(r.err)
         ELSE IF r.sql = <<>> THEN Ok(<<>>, <<>>)
         ELSE Ok(f.prefix \o <<" ">> \o r.sql, r.args)

(***************************************************************************)
(* joinStatement.ToSQL                                                     *)
(***************************************************************************)
JoinSepAlways(b, sep) == b \o sep

\* what is written before a non-empty child fragment
JoinSep(b, sep) == IF Len(b) > 0 THEN b \o sep ELSE b

\* the arguments after a child that gave the empty fragment
JoinSkip(arguments, args) == arguments

RECURSIVE JoinLoop(_, _, _, _, _)
JoinLoop(js, param, i, b, arguments) ==
    IF i > Len(js.stmts) THEN Ok(b, arguments)
    ELSE IF IsNil(js.stmts[i]) THEN JoinLoop(js, param, i + 1, b, arguments)
    ELSE LET r == ToSQL(js.stmts[i], param) IN
         IF r.err # NoErr THEN Fail(r.err)
         ELSE IF r.sql = <<>>
         THEN JoinLoop(js, param, i + 1, b, JoinSkip(arguments, r.args))
         ELSE JoinLoop(js, param, i + 1, JoinSep(b, js.sep) \o r.sql, arguments \o r.args)

JoinToSQL(js, param) == JoinLoop(js, param, 1, <<>>, <<>>)

(***************************************************************************)
(* listStatement.ToSQL                                                     *)
(***************************************************************************)
ListSepAlways(b, sep) == b \o sep

\* what is written before an element's fragment
ListSepWrite(b, sep) == IF Len(b) > 0 THEN b \o sep ELSE b

\* what an element contributes when no child is bound
ListBare(arguments, p) == Append(arguments, p)

RECURSIVE ListLoop(_, _, _, _, _)
ListLoop(jp, param, i, b, arguments) ==
    IF i > Len(param) THEN Ok(b, arguments)
    ELSE IF IsNil(jp.stmt)
    THEN ListLoop(jp, param, i + 1, ListSepWrite(b, jp.sep) \o <<"?">>,
                  ListBare(arguments, param[i]))
    ELSE LET r == ToSQL(jp.stmt, param[i]) IN
         IF r.err # NoErr THEN Fail(r.err)
         ELSE IF r.sql = <<>> THEN ListLoop(jp, param, i + 1, b, arguments)
         ELSE ListLoop(jp, param, i + 1, ListSepWrite(b, jp.sep) \o r.sql,
                       arguments \o r.args)

ListToSQL(jp, param) == ListLoop(jp, param, 1, <<>>, <<>>)

(***************************************************************************)
(* Statement.ToSQL: dispatch on the dynamic type of the statement.         *)
(***************************************************************************)
ToSQL(s, param) ==
    CASE s.kind = "expr"   -> ExprToSQL(s.f, param)
      [] s.kind = "values" -> ValuesToSQL(s.f, param)
      [] s.kind = "stmt"   -> TemplateToSQL(s, param)
      [] s.kind = "prefix" -> PrefixToSQL(s, param)
      [] s.kind = "join"   -> JoinToSQL(s, param)
      [] s.kind = "list"   -> ListToSQL(s, param)

(***************************************************************************)
(* The inputs of the statement specification.                              *)
(***************************************************************************)
Chars == {"?", " ", "a"}
Params == {0, 1, 2}

SeqsUpTo(S, n) == UNION {[1..k -> S] : k \in 0..n}

Texts == SeqsUpTo(Chars, MaxLen)

Leaves == {Expr(f) : f \in ExprFuncs}
Children == Leaves \cup {Nil}

\* templates of the README and of the package's own helpers
ExampleTemplates ==
    { Stmt(<<"a", " ", "?", " ", "b">>, <<Expr("none")>>),
      Stmt(<<"a", " ", "?", " ", "b">>, <<Expr("opt")>>),
      Stmt(<<"a", " ", "?", " ", "b">>,
           <<Prefix(<<"W">>, Join(<<" ", "&", " ">>, <<Expr("opt"), Expr("eq")>>))>>),
      Stmt(<<"(", "?", ")">>, <<Join(<<" ", "&", " ">>, <<Expr("eq"), Expr("opt")>>)>>),
      Stmt(<<"(", "?", ",", "?", ")">>, <<Values("vals2"), Values("vals0")>>) }

Bindings == SeqsUpTo(Children, MaxBind)

Seps == {<<",">>, <<" ", "&", " ">>}

\* the separators of Join: those of List, and the empty string
JoinSeps == Seps \cup {<<>>}

JoinChildren == SeqsUpTo(Children \cup {Stmt(<<"?">>, <<>>)}, MaxJoin)

PrefixChildren == Children \cup {Join(<<",">>, <<Expr("opt"), Expr("eq")>>)}

ListChildren ==
    Children \cup {Stmt(<<"(", "?", ",", "?", ")">>, <<>>), Stmt(<<"(", "?", ")">>, <<>>),
                   Values("vals2"), Stmt(<<"?">>, <<Expr("opt")>>)}

ListParams == SeqsUpTo(Params, MaxList)

\* the zero value of P and one other value are what the closures tell apart
ScalarParams == {0, 1}

\* the statement resolved and the parameter it is resolved against
StmtCall(s, p) == call = [stmt |-> s, param |-> p]

NoRet == Fail("pending")

InitStmt ==
    /\ pc = "call"
    /\ \/ \E t \in Texts, a \in Bindings, p \in ScalarParams : StmtCall(Stmt(t, a), p)
       \/ \E s \in ExampleTemplates, p \in ScalarParams : StmtCall(s, p)
       \/ \E sep \in JoinSeps, c \in JoinChildren, p \in Params : StmtCall(Join(sep, c), p)
       \/ \E c \in PrefixChildren, p \in Params : StmtCall(Prefix(<<"W">>, c), p)
       \/ \E s \in Leaves, p \in Params : StmtCall(s, p)
       \/ \E sep \in Seps, c \in ListChildren, p \in ListParams : StmtCall(ListSep(sep, c), p)
    /\ ret = NoRet
    /\ frames = <<>>
    /\ calls = 0
    /\ QueryIdle

ResolveExpr ==
    /\ pc = "call"
    /\ call.stmt.kind = "expr"
    /\ ret' = ExprToSQL(call.stmt.f, call.param)
    /\ pc' = "done"
    /\ UNCHANGED <<call, svars, qvars>>

ResolveTemplate ==
    /\ pc = "call"
    /\ call.stmt.kind = "stmt"
    /\ ret' = TemplateToSQL(call.stmt, call.param)
    /\ pc' = "done"
    /\ UNCHANGED <<call, svars, qvars>>

ResolvePrefix ==
    /\ pc = "call"
    /\ call.stmt.kind = "prefix"
    /\ ret' = PrefixToSQL(call.stmt, call.param)
    /\ pc' = "done"
    /\ UNCHANGED <<call, svars, qvars>>

ResolveJoin ==
    /\ pc = "call"
    /\ call.stmt.kind = "join"
    /\ ret' = JoinToSQL(call.stmt, call.param)
    /\ pc' = "done"
    /\ UNCHANGED <<call, svars, qvars>>

ResolveList ==
    /\ pc = "call"
    /\ call.stmt.kind = "list"
    /\ ret' = ListToSQL(call.stmt, call.param)
    /\ pc' = "done"
    /\ UNCHANGED <<call, svars, qvars>>

NextStmt ==
    \/ ResolveExpr
    \/ ResolveTemplate
    \/ ResolvePrefix
    \/ ResolveJoin
    \/ ResolveList

SpecStmt == InitStmt /\ [][NextStmt]_vars

(***************************************************************************)
(* Reference readings of the template text, written character by           *)
(* character and without the resolution loop's bookkeeping.                *)
(***************************************************************************)
\* the number of unescaped markers of s, a doubled marker counting for none
RECURSIVE CountMarkers(_)
CountMarkers(s) ==
    IF Len(s) = 0 THEN 0
    ELSE IF Len(s) >= 2 /\ s[1] = "?" /\ s[2] = "?" THEN CountMarkers(From(s, 2))
    ELSE IF s[1] = "?" THEN 1 + CountMarkers(Tail(s))
    ELSE CountMarkers(Tail(s))

\* the number of doubled markers of s
RECURSIVE CountDoubled(_)
CountDoubled(s) ==
    IF Len(s) = 0 THEN 0
    ELSE IF Len(s) >= 2 /\ s[1] = "?" /\ s[2] = "?" THEN 1 + CountDoubled(From(s, 2))
    ELSE CountDoubled(Tail(s))

\* s with every doubled marker replaced by one marker
RECURSIVE Unescape(_)
Unescape(s) ==
    IF Len(s) = 0 THEN <<>>
    ELSE IF Len(s) >= 2 /\ s[1] = "?" /\ s[2] = "?" THEN <<"?">> \o Unescape(From(s, 2))
    ELSE <<s[1]>> \o Unescape(Tail(s))

\* what the k-th marker of a template stands for: its child's result, or the
\* marker itself with the whole parameter when it has no binding
MarkerResult(t_args, param, k) ==
    IF k > Len(t_args) \/ IsNil(t_args[k])
    THEN Ok(<<"?">>, <<param>>)
    ELSE ToSQL(t_args[k], param)

\* s with its k-th, (k+1)-th, ... unescaped markers replaced by their results
RECURSIVE Splice(_, _, _, _)
Splice(s, t_args, param, k) ==
    IF Len(s) = 0 THEN Ok(<<>>, <<>>)
    ELSE IF Len(s) >= 2 /\ s[1] = "?" /\ s[2] = "?"
    THEN LET r == Splice(From(s, 2), t_args, param, k) IN Ok(<<"?", "?">> \o r.sql, r.args)
    ELSE IF s[1] = "?"
    THEN LET m == MarkerResult(t_args, param, k)
             r == Splice(Tail(s), t_args, param, k + 1)
         IN  Ok(m.sql \o r.sql, m.args \o r.args)
    ELSE LET r == Splice(Tail(s), t_args, param, k) IN Ok(<<s[1]>> \o r.sql, r.args)

\* s without its unescaped markers and without one space after each of them
RECURSIVE DropMarkers(_)
DropMarkers(s) ==
    IF Len(s) = 0 THEN <<>>
    ELSE IF Len(s) >= 2 /\ s[1] = "?" /\ s[2] = "?" THEN <<"?", "?">> \o DropMarkers(From(s, 2))
    ELSE IF s[1] = "?"
    THEN IF Len(s) >= 2 /\ s[2] = " " THEN DropMarkers(From(s, 2)) ELSE DropMarkers(Tail(s))
    ELSE <<s[1]>> \o DropMarkers(Tail(s))

\* a statement's result, the nil statement standing for nothing
ChildResult(c, param) == IF IsNil(c) THEN Ok(<<>>, <<>>) ELSE ToSQL(c, param)

GivesText(r) == r.err = NoErr /\ r.sql # <<>>
GivesNothing(r) == r.err = NoErr /\ r.sql = <<>>

\* the results of the children that give text, in order
TextResults(stmts, param) ==
    SelectSeq([i \in 1..Len(stmts) |-> ChildResult(stmts[i], param)], GivesText)

\* fragments joined by sep, and their arguments one after the other
RECURSIVE Joined(_, _)
Joined(rs, sep) ==
    IF Len(rs) = 0 THEN Ok(<<>>, <<>>)
    ELSE IF Len(rs) = 1 THEN Ok(rs[1].sql, rs[1].args)
    ELSE LET r == Joined(Tail(rs), sep) IN Ok(rs[1].sql \o sep \o r.sql, rs[1].args \o r.args)

TemplateDone == pc = "done" /\ call.stmt.kind = "stmt"

\* every marker of the template has at most one binding, and every binding
\* is nil or gives text
C1_Case ==
    /\ TemplateDone
    /\ CountMarkers(call.stmt.sql) >= 1
    /\ Len(call.stmt.args) <= CountMarkers(call.stmt.sql)
    /\ \A i \in 1..Len(call.stmt.args) :
          IsNil(call.stmt.args[i]) \/ GivesText(ToSQL(call.stmt.args[i], call.param))

\* C1 as stated: the result is the template text with each marker replaced by
\* its child's fragment (an unbound marker staying a marker), and the
\* arguments are the children's arguments in marker order (the whole
\* parameter for an unbound marker).
C1_AsStated ==
    C1_Case => ret = Splice(call.stmt.sql, call.stmt.args, call.param, 1)

\* C1, amended: as C1_AsStated, with leading and trailing white space
\* trimmed from the resulting text.
C1_TemplateSplice ==
    C1_Case =>
        LET r == Splice(call.stmt.sql, call.stmt.args, call.param, 1) IN
        /\ ret.err = NoErr
        /\ ret.sql = TrimSpace(r.sql)
        /\ ret.args = r.args

C1_Witness ==
    /\ C1_Case
    /\ call.stmt.sql = <<"?", "a", "?">>
    /\ call.stmt.args = <<Expr("eq"), Nil>>
    /\ call.param = 1
    /\ ret = Ok(<<"a", "?", "a", "?">>, <<1, 1>>)

\* the template has markers, and every one of its bindings gives the empty
\* fragment
C2_Case ==
    /\ TemplateDone
    /\ CountMarkers(call.stmt.sql) >= 1
    /\ Len(call.stmt.args) >= 1
    /\ \A i \in 1..Len(call.stmt.args) :
          /\ ~IsNil(call.stmt.args[i])
          /\ GivesNothing(ToSQL(call.stmt.args[i], call.param))

\* C2: a marker whose child gives the empty fragment leaves nothing in the
\* output, takes one following space of the template with it, and appends
\* none of the child's arguments.
C2_EmptyChildDropped ==
    C2_Case => ret = Ok(TrimSpace(DropMarkers(call.stmt.sql)), <<>>)

C2_Witness ==
    /\ C2_Case
    /\ call.stmt = Stmt(<<"a", " ", "?", " ", "b">>, <<Expr("none")>>)
    /\ ret = Ok(<<"a", " ", "b">>, <<>>)

\* the template has doubled markers and no other marker, and no binding fails
C3_Case ==
    /\ TemplateDone
    /\ CountMarkers(call.stmt.sql) = 0
    /\ CountDoubled(call.stmt.sql) >= 1
    /\ \A i \in 1..Len(call.stmt.args) : ChildResult(call.stmt.args[i], call.param).err = NoErr

\* C3 as stated: each doubled marker is one marker character in the fragment
\* that ToSQL returns.
C3_AsStated ==
    (C3_Case /\ call.stmt.args = <<>>) => ret.sql = TrimSpace(Unescape(call.stmt.sql))

\* C3, amended: each doubled marker is kept as the two characters it is in
\* the fragment that ToSQL returns (the placeholder rewrite makes one of
\* them later); it takes no binding, every binding being appended after the
\* text, and it appends no argument.
C3_DoubledKept ==
    C3_Case =>
        LET rest == Joined(<<Ok(call.stmt.sql, <<>>)>>
                               \o TextResults(call.stmt.args, call.param), <<" ">>)
        IN  ret = Ok(TrimSpace(rest.sql), rest.args)

C3_Witness ==
    /\ C3_Case
    /\ call.stmt = Stmt(<<"a", "?", "?">>, <<Expr("eq")>>)
    /\ call.param = 1
    /\ ret = Ok(<<"a", "?", "?", " ", "a", "?">>, <<1>>)

\* no child of the Join fails
C4_Case ==
    /\ pc = "done"
    /\ call.stmt.kind = "join"
    /\ \A i \in 1..Len(call.stmt.stmts) : ChildResult(call.stmt.stmts[i], call.param).err = NoErr

\* C4: Join gives the fragments of the children that give text, in order,
\* with the separator between two of them and nowhere else, and the
\* arguments of those children in the same order; nothing when no child
\* gives text.
C4_Join ==
    C4_Case => ret = Joined(TextResults(call.stmt.stmts, call.param), call.stmt.sep)

C4_Witness ==
    /\ C4_Case
    /\ call.stmt = Join(<<" ", "&", " ">>, <<Expr("none"), Expr("eq"), Expr("opt")>>)
    /\ call.param = 1
    /\ ret = Ok(<<"a", "?", " ", "&", " ", "a", "?">>, <<1, 1>>)

\* what each element of the parameter gives under the List's child, an
\* element standing for itself behind one marker when no child is bound
ElementResults(jp, param) ==
    [i \in 1..Len(param) |->
        IF IsNil(jp.stmt) THEN Ok(<<"?">>, <<param[i]>>) ELSE ToSQL(jp.stmt, param[i])]

\* no element of the List fails
C5_Case ==
    /\ pc = "done"
    /\ call.stmt.kind = "list"
    /\ \A i \in 1..Len(call.param) : ElementResults(call.stmt, call.param)[i].err = NoErr

\* C5: List gives the per-element fragments that are not empty, joined by the
\* separator, and the per-element arguments in element order; without a
\* child, one marker per element and the elements as arguments; nothing for
\* the empty sequence.
C5_List ==
    C5_Case =>
        ret = Joined(SelectSeq(ElementResults(call.stmt, call.param), GivesText), call.stmt.sep)

C5_Witness ==
    /\ C5_Case
    /\ call.stmt = List(Stmt(<<"(", "?", ",", "?", ")">>, <<>>))
    /\ call.param = <<2, 0, 1>>
    /\ ret = Ok(<<"(", "?", ",", "?", ")", ",", "(", "?", ",", "?", ")", ",",
                  "(", "?", ",", "?", ")">>, <<2, 2, 0, 0, 1, 1>>)

(***************************************************************************)
(* recursiveStatement.ToSQL, one activation at a time.  A frame is one     *)
(* activation: the receiver's copy of maxDepth, the parameter, and where   *)
(* the activation stands: "entry" (ToSQL entered), "builder" (the closure  *)
(* s.stmt was called and has not run), "wait" (the closure called          *)
(* self.ToSQL and waits for it).                                           *)
(***************************************************************************)
Recursive(depth, f) == [kind |-> "recursive", maxDepth |-> depth, stmt |-> f]

\* the builder closures of the model: "leaf" never calls self, "wrap" always
\* calls self and hands an error back, "descend" calls self with a smaller
\* parameter until the parameter is 0
RecFuncs == {"leaf", "wrap", "descend"}

Top == frames[Len(frames)]
Pop == SubSeq(frames, 1, Len(frames) - 1)
SetTop(f) == [frames EXCEPT ![Len(frames)] = f]

RecursiveTooDeepOff(maxDepth) == maxDepth < -1

\* the guard of recursiveStatement.ToSQL
RecursiveTooDeep(maxDepth) == maxDepth < 0

\* a frame leaves with result r: the caller, if any, goes on with it
Return(r) ==
    /\ ret' = r
    /\ frames' = Pop
    /\ pc' = IF Len(frames) = 1 THEN "done" ELSE pc

\* recursiveStatement.ToSQL up to its call of s.stmt
RecursiveToSQL ==
    /\ pc = "call"
    /\ frames # <<>>
    /\ Top.at = "entry"
    /\ IF RecursiveTooDeep(Top.maxDepth)
       THEN /\ Return(Fail(ErrRecursiveDepth))
            /\ UNCHANGED calls
       ELSE /\ frames' = SetTop([Top EXCEPT !.maxDepth = Top.maxDepth - 1, !.at = "builder"])
            /\ calls' = calls + 1
            /\ UNCHANGED <<pc, ret>>
    /\ UNCHANGED <<call, qvars>>

\* the builder closure s.stmt(s, param), up to its call of self.ToSQL or its return
Builder ==
    /\ pc = "call"
    /\ frames # <<>>
    /\ Top.at = "builder"
    /\ LET f == call.stmt.stmt
           callSelf(p) ==
               /\ frames' = Append(SetTop([Top EXCEPT !.at = "wait"]),
                                   [maxDepth |-> Top.maxDepth, param |-> p, at |-> "entry"])
               /\ UNCHANGED <<pc, ret>>
       IN  CASE f = "leaf" -> Return(Ok(<<"a">>, <<>>))
             [] f = "wrap" -> callSelf(Top.param)
             [] f = "descend" ->
                    IF Top.param = 0
                    THEN Return(Ok(<<"a", "?">>, <<Top.param>>))
                    ELSE callSelf(Top.param - 1)
    /\ UNCHANGED <<call, calls, qvars>>

\* the builder closure after self.ToSQL returned: an error is handed back,
\* a fragment is put in parentheses
BuilderResume ==
    /\ pc = "call"
    /\ frames # <<>>
    /\ Top.at = "wait"
    /\ IF ret.err # NoErr
       THEN Return(Fail(ret.err))
       ELSE Return(Ok(<<"(">> \o ret.sql \o <<")">>, ret.args))
    /\ UNCHANGED <<call, calls, qvars>>

InitRecursive ==
    /\ pc = "call"
    /\ \E d \in -1..MaxDepth, f \in RecFuncs, p \in Params :
          call = [stmt |-> Recursive(d, f), param |-> p]
    /\ ret = NoRet
    /\ frames = <<[maxDepth |-> call.stmt.maxDepth, param |-> call.param, at |-> "entry"]>>
    /\ calls = 0
    /\ QueryIdle

NextRecursive ==
    \/ RecursiveToSQL
    \/ Builder
    \/ BuilderResume

SpecRecursive == InitRecursive /\ [][NextRecursive]_vars

\* C6 as stated: a Recursive whose budget is zero fails without invoking the
\* builder, so Recursive(d, f) with d >= 0 invokes f at most d times.
C6_AsStated ==
    call.stmt.maxDepth >= 0 => calls <= call.stmt.maxDepth

\* C6, amended: a Recursive whose budget is negative fails with
\* ErrRecursiveDepth without invoking the builder (a budget of zero still
\* invokes it once); Recursive(d, f) with d >= 0 invokes f at most d + 1
\* times, no activation runs the builder with a budget below -1, and when f
\* always calls self the resolution ends with ErrRecursiveDepth after
\* exactly d + 1 invocations.
C6_DepthBound ==
    /\ calls <= call.stmt.maxDepth + 1
    /\ Len(frames) <= call.stmt.maxDepth + 2
    /\ \A i \in 1..Len(frames) : frames[i].at # "entry" => frames[i].maxDepth >= -1
    /\ (pc = "done" /\ call.stmt.maxDepth < 0) => (calls = 0 /\ ret = Fail(ErrRecursiveDepth))
    /\ (pc = "done" /\ call.stmt.stmt = "wrap") =>
           (calls = call.stmt.maxDepth + 1 /\ ret = Fail(ErrRecursiveDepth))

C6_Witness ==
    /\ pc = "done"
    /\ call.stmt = Recursive(2, "wrap")
    /\ calls = 3
    /\ ret = Fail(ErrRecursiveDepth)

(***************************************************************************)
(* The placeholder rewriters.                                              *)
(***************************************************************************)
DigitChars == <<"0", "1", "2", "3", "4", "5", "6", "7", "8", "9">>

\* strconv.Itoa(n), for n >= 0
RECURSIVE Itoa(_)
Itoa(n) == IF n < 10 THEN <<DigitChars[n + 1]>> ELSE Itoa(n \div 10) \o <<DigitChars[(n % 10) + 1]>>

\* what the rewriters write for a doubled marker found at index
RewriteEscape(sql, index) == Upto(sql, index + 1)

\* StaticPlaceholder.ReplacePlaceholders: the loop
RECURSIVE StaticLoop(_, _, _)
StaticLoop(sp, sql, builder) ==
    LET index == IndexByte(sql, "?") IN
    IF index < 0 THEN builder \o sql
    ELSE IF index < Len(sql) - 1 /\ sql[index + 2] = "?"
    THEN StaticLoop(sp, From(sql, index + 2), builder \o RewriteEscape(sql, index))
    ELSE StaticLoop(sp, From(sql, index + 1), builder \o Upto(sql, index) \o sp)

\* StaticPlaceholder.ReplacePlaceholders
StaticReplacePlaceholders(sp, sql) ==
    IF sp = <<"?">>
    THEN [sql |-> sql, err |-> NoErr]
    ELSE [sql |-> StaticLoop(sp, sql, <<>>), err |-> NoErr]

PositionalWriteFromZero(pp, argIndex) == pp \o Itoa(argIndex - 1)

\* what PositionalPlaceholder writes for the marker numbered argIndex
PositionalWrite(pp, argIndex) == pp \o Itoa(argIndex)

\* PositionalPlaceholder.ReplacePlaceholders: the loop
RECURSIVE PositionalLoop(_, _, _, _)
PositionalLoop(pp, sql, builder, argIndex) ==
    LET index == IndexByte(sql, "?") IN
    IF index < 0 THEN builder \o sql
    ELSE IF index < Len(sql) - 1 /\ sql[index + 2] = "?"
    THEN PositionalLoop(pp, From(sql, index + 2), builder \o RewriteEscape(sql, index), argIndex)
    ELSE PositionalLoop(pp, From(sql, index + 1),
                        builder \o Upto(sql, index) \o PositionalWrite(pp, argIndex + 1),
                        argIndex + 1)

\* PositionalPlaceholder.ReplacePlaceholders
PositionalReplacePlaceholders(pp, sql) ==
    [sql |-> PositionalLoop(pp, sql, <<>>, 0), err |-> NoErr]

Question == [kind |-> "static", s |-> <<"?">>]
Dollar == [kind |-> "positional", s |-> <<"$">>]
Colon == [kind |-> "positional", s |-> <<":">>]
AtP == [kind |-> "positional", s |-> <<"@", "p">>]

Placeholders ==
    {Question, Dollar, Colon, AtP,
     [kind |-> "static", s |-> <<"$">>], [kind |-> "static", s |-> <<>>],
     [kind |-> "static", s |-> <<":", "x">>]}

\* eleven markers, so that a marker's number takes two digits
ManyMarkers == Repeat(<<"?", ",">>, 11)

RewriteTexts ==
    SeqsUpTo(Chars, MaxText)
    \cup {<<"S", " ", "?", " ", ",", " ", "?", "?">>, <<"?", ",", "?", ",", "?">>, ManyMarkers}

InitRewrite ==
    /\ pc = "call"
    /\ \E ph \in Placeholders, t \in RewriteTexts : call = [ph |-> ph, sql |-> t]
    /\ ret = NoRet
    /\ frames = <<>>
    /\ calls = 0
    /\ QueryIdle

StaticReplace ==
    /\ pc = "call"
    /\ call.ph.kind = "static"
    /\ ret' = StaticReplacePlaceholders(call.ph.s, call.sql)
    /\ pc' = "done"
    /\ UNCHANGED <<call, svars, qvars>>

PositionalReplace ==
    /\ pc = "call"
    /\ call.ph.kind = "positional"
    /\ ret' = PositionalReplacePlaceholders(call.ph.s, call.sql)
    /\ pc' = "done"
    /\ UNCHANGED <<call, svars, qvars>>

NextRewrite ==
    \/ StaticReplace
    \/ PositionalReplace

SpecRewrite == InitRewrite /\ [][NextRewrite]_vars

\* sql with every doubled marker made one marker and every other marker
\* replaced by lit
RECURSIVE StaticRef(_, _)
StaticRef(lit, sql) ==
    IF Len(sql) = 0 THEN <<>>
    ELSE IF Len(sql) >= 2 /\ sql[1] = "?" /\ sql[2] = "?"
    THEN <<"?">> \o StaticRef(lit, From(sql, 2))
    ELSE IF sql[1] = "?" THEN lit \o StaticRef(lit, Tail(sql))
    ELSE <<sql[1]>> \o StaticRef(lit, Tail(sql))

\* sql with every doubled marker made one marker and the other markers
\* replaced by prefix and k, k + 1, ... from left to right
RECURSIVE PositionalRef(_, _, _)
PositionalRef(prefix, sql, k) ==
    IF Len(sql) = 0 THEN <<>>
    ELSE IF Len(sql) >= 2 /\ sql[1] = "?" /\ sql[2] = "?"
    THEN <<"?">> \o PositionalRef(prefix, From(sql, 2), k)
    ELSE IF sql[1] = "?" THEN prefix \o Itoa(k) \o PositionalRef(prefix, Tail(sql), k + 1)
    ELSE <<sql[1]>> \o PositionalRef(prefix, Tail(sql), k)

\* C7: StaticPlaceholder(s), for every literal s, "?" among them, makes each
\* doubled marker one marker, replaces every other marker by s, keeps the
\* rest of the text and returns no error.
C7_AsStated ==
    (pc = "done" /\ call.ph.kind = "static") =>
        ret = [sql |-> StaticRef(call.ph.s, call.sql), err |-> NoErr]

\* The part of C7 the code keeps: for every literal other than "?".
C7_OtherLiterals ==
    (pc = "done" /\ call.ph.kind = "static" /\ call.ph.s # <<"?">>) =>
        ret = [sql |-> StaticRef(call.ph.s, call.sql), err |-> NoErr]

\* C8: PositionalPlaceholder(p) replaces the k-th unescaped marker by p and
\* the decimal k, counting from 1; a doubled marker becomes one marker and
\* is not counted; the rest of the text is kept.
C8_Positional ==
    (pc = "done" /\ call.ph.kind = "positional") =>
        ret = [sql |-> PositionalRef(call.ph.s, call.sql, 1), err |-> NoErr]

C8_Witness ==
    /\ pc = "done"
    /\ call.ph = Colon
    /\ call.sql = ManyMarkers
    /\ SubSeq(ret.sql, Len(ret.sql) - 7, Len(ret.sql)) = <<":", "1", "0", ",", ":", "1", "1", ",">>
    /\ CountMarkers(call.sql) = 11

(***************************************************************************)
(* database/sql.Rows, as far as Query and Rows[T] use it.  A handle holds  *)
(* the result set the database answers with (its column names and its      *)
(* number of rows), the cursor position, and what the driver did wrong.    *)
(* The cell of row i under column position j holds the value Cell(i, j).   *)
(***************************************************************************)
ErrRewrite == "ErrRewrite"          \* a custom Placeholder's error
ErrQuery == "ErrQuery"              \* QueryContext's error
ErrDriver == "ErrDriver"            \* the driver's error while advancing
ErrCtx == "context.Canceled"
ErrRowsClosed == "sql: Rows are closed"
ErrScan == "ErrScan"                \* a value that does not convert to its destination
ErrMap == "ErrMap"                  \* a scanner's transform that fails
ErrClose == "ErrClose"              \* the driver's error while closing
ErrNoRows == "sql.ErrNoRows"
ErrTooManyRows == "ErrTooManyRows"

OpenHandle(cols, nrows) ==
    [live |-> TRUE, cols |-> cols, nrows |-> nrows, pos |-> 0, closed |-> FALSE,
     lasterr |-> NoErr, faults |-> {}]

Cell(i, j) == 10 * i + j

\* (*sql.Rows).Next: false once closed; a driver error or the end of the
\* rows closes the handle
SqlNext(h, fail) ==
    IF h.closed THEN [h |-> h, ok |-> FALSE]
    ELSE IF fail
    THEN [h |-> [h EXCEPT !.closed = TRUE, !.lasterr = ErrDriver, !.faults = @ \cup {"iter"}],
          ok |-> FALSE]
    ELSE IF h.pos < h.nrows THEN [h |-> [h EXCEPT !.pos = @ + 1], ok |-> TRUE]
    ELSE [h |-> [h EXCEPT !.closed = TRUE], ok |-> FALSE]

\* (*sql.Rows).Err
SqlErr(h) == h.lasterr

\* (*sql.Rows).Close: nil when already closed
SqlClose(h, cerr) ==
    IF h.closed THEN [h |-> h, err |-> NoErr]
    ELSE [h |-> [h EXCEPT !.closed = TRUE,
                          !.faults = IF cerr = NoErr THEN @ ELSE @ \cup {"close"}],
          err |-> cerr]

\* the error of (*sql.Rows).Scan; conv says whether a value fails to convert
SqlScanErr(h, conv) ==
    IF h.lasterr # NoErr THEN h.lasterr
    ELSE IF h.closed THEN ErrRowsClosed
    ELSE IF conv THEN ErrScan
    ELSE NoErr

\* (*sql.Rows).Columns: an error once the handle is closed
SqlColumnsErr(h) ==
    IF ~h.closed THEN NoErr
    ELSE IF h.lasterr # NoErr THEN h.lasterr ELSE ErrRowsClosed

DeferCloseForgotten(h) == h

\* defer r.Rows.Close(): the handle is closed when the method returns
DeferClose(h) == [h EXCEPT !.closed = TRUE]

(***************************************************************************)
(* Query[T, P] and Rows[T]                                                 *)
(***************************************************************************)
NoPlaceholder == [kind |-> "none"]
FailingPlaceholder == [kind |-> "failing"]

\* Placeholder.ReplacePlaceholders: dispatch on the dynamic type
ReplacePlaceholders(ph, sql) ==
    CASE ph.kind = "static" -> StaticReplacePlaceholders(ph.s, sql)
      [] ph.kind = "positional" -> PositionalReplacePlaceholders(ph.s, sql)
      [] ph.kind = "failing" -> [sql |-> <<>>, err |-> ErrRewrite]

\* the zero value of T: a scalar when no column is declared, else a struct
\* with one field per declared column
ZeroT == IF call.columns = {} THEN 0 ELSE [n \in call.columns |-> 0]

\* what a Query method returns beside an error of Query.Rows
ZeroResult ==
    CASE call.op = "Rows" -> NoRows
      [] call.op = "All" -> <<>>
      [] OTHER -> ZeroT

\* Query.Rows returns (nil, err), and All, First or One hand err on
QueryFail(err) ==
    /\ ret' = [val |-> ZeroResult, err |-> err]
    /\ pc' = "done"

\* Query.Rows: q.Statement.ToSQL and q.Placeholder.ReplacePlaceholders
RowsBuild ==
    /\ pc = "rows.build"
    /\ LET r == ToSQL(call.stmt, call.param)
           w == IF call.ph.kind = "none"
                THEN [sql |-> r.sql, err |-> NoErr]
                ELSE ReplacePlaceholders(call.ph, r.sql)
       IN  IF r.err # NoErr THEN QueryFail(r.err) /\ UNCHANGED local
           ELSE IF w.err # NoErr THEN QueryFail(w.err) /\ UNCHANGED local
           ELSE /\ local' = [local EXCEPT !.sql = w.sql, !.args = r.args]
                /\ pc' = "rows.query"
                /\ UNCHANGED ret
    /\ UNCHANGED <<call, svars, handle, rows, scans>>

ColumnLists == SeqsUpTo(ColumnNames, MaxCols)

\* Query.Rows: querier.QueryContext
RowsQuery ==
    /\ pc = "rows.query"
    /\ \/ QueryFail(ErrQuery) /\ UNCHANGED handle
       \/ \E cols \in ColumnLists, n \in 0..MaxRows :
             /\ handle' = OpenHandle(cols, n)
             /\ pc' = "rows.columns"
             /\ UNCHANGED ret
    /\ UNCHANGED <<call, svars, rows, local, scans>>

\* Query.Rows: rows.Columns
RowsColumns ==
    /\ pc = "rows.columns"
    /\ IF SqlColumnsErr(handle) # NoErr
       THEN QueryFail(SqlColumnsErr(handle))
       ELSE pc' = "rows.bind" /\ UNCHANGED ret
    /\ UNCHANGED <<call, svars, qvars>>

\* where the method that called Query.Rows starts
FirstStep ==
    CASE call.op = "All" -> "all.next"
      [] call.op = "First" -> "first.next"
      [] call.op = "One" -> "one.next"

\* the declared names in a fixed order, the first n of them dropped
RECURSIVE DeclaredFrom(_, _)
DeclaredFrom(declared, n) ==
    IF declared = {} THEN <<>>
    ELSE LET m == CHOOSE x \in declared : \A y \in declared : x = y \/ ColumnRank(x) < ColumnRank(y)
         IN  IF n = 0 THEN <<m>> \o DeclaredFrom(declared \ {m}, 0)
             ELSE DeclaredFrom(declared \ {m}, n - 1)

BindColumnByPosition(columns, i, declared) ==
    IF DeclaredFrom(declared, i - 1) # <<>> THEN DeclaredFrom(declared, i - 1)[1] ELSE "_"

\* Query.Rows: q.Columns[c] for the i-th reported column c; "_" stands for
\* the throwaway new(any)
BindColumn(columns, i, declared) ==
    IF columns[i] \in declared THEN columns[i] ELSE "_"

ScanCallsOncePerName(bind, n) ==
    IF \E j \in DOMAIN bind : bind[j] = n THEN 1 ELSE 0

\* Query.Rows: how often the loop over the reported columns calls s.Scan()
\* of the scanner declared under n
ScanCalls(bind, n) == Cardinality({j \in DOMAIN bind : bind[j] = n})

\* Query.Rows: the destinations and the mappers, by reported column name
RowsBind ==
    /\ pc = "rows.bind"
    /\ LET cols == handle.cols
           whole == call.columns = {}
           r == [live |-> TRUE, whole |-> whole,
                 bind |-> [j \in 1..Len(cols) |->
                              IF whole THEN (IF j = 1 THEN "*" ELSE "_")
                              ELSE BindColumn(cols, j, call.columns)]]
       IN  IF whole /\ Len(cols) = 0
           THEN \* dest[0] of an empty slice: index out of range
                /\ pc' = "panic"
                /\ UNCHANGED <<ret, rows, local, scans>>
           ELSE /\ rows' = r
                /\ scans' = [n \in ColumnNames |-> IF whole THEN 0 ELSE ScanCalls(r.bind, n)]
                /\ local' = [local EXCEPT !.t = ZeroT, !.list = <<>>]
                /\ IF call.op = "Rows"
                   THEN ret' = [val |-> r, err |-> NoErr] /\ pc' = "done"
                   ELSE pc' = FirstStep /\ UNCHANGED ret
    /\ UNCHANGED <<call, svars, handle>>

\* the context of the call is cancelled: database/sql closes the handle
Cancel ==
    /\ pc \notin {"done", "panic"}
    /\ handle.live
    /\ ~handle.closed
    /\ handle' = [handle EXCEPT !.closed = TRUE, !.lasterr = ErrCtx, !.faults = @ \cup {"ctx"}]
    /\ UNCHANGED <<pc, call, ret, svars, rows, local, scans>>

\* the mappers of columns 1..n applied to t, the destinations holding row i
RECURSIVE ApplyMappers(_, _, _, _)
ApplyMappers(t, bind, i, n) ==
    IF n = 0 THEN t
    ELSE LET u == ApplyMappers(t, bind, i, n - 1) IN
         IF bind[n] = "_" THEN u ELSE [u EXCEPT ![bind[n]] = Cell(i, n)]

\* the columns whose mapper may fail, and 0 for none
MapChoices == {0} \cup {j \in 1..Len(rows.bind) : rows.bind[j] \notin {"_", "*"}}

\* Rows.Scan(t): r.Rows.Scan(r.Dest...) and then r.Map(t); conv says whether
\* a value fails to convert, k which column's mapper fails (0: none)
RowsScan(t, conv, k) ==
    LET e == SqlScanErr(handle, conv) IN
    IF e # NoErr THEN [t |-> t, err |-> e, fault |-> IF e = ErrScan THEN {"scan"} ELSE {}]
    ELSE IF rows.whole THEN [t |-> Cell(handle.pos, 1), err |-> NoErr, fault |-> {}]
    ELSE IF k = 0
    THEN [t |-> ApplyMappers(t, rows.bind, handle.pos, Len(rows.bind)), err |-> NoErr,
          fault |-> {}]
    ELSE [t |-> ApplyMappers(t, rows.bind, handle.pos, k - 1), err |-> ErrMap, fault |-> {"map"}]

Faulted(h, fault) == [h EXCEPT !.faults = @ \cup fault]

\* a method of Rows[T] returns (val, err); its deferred Close runs
RowsReturn(val, err, h) ==
    /\ ret' = [val |-> val, err |-> err]
    /\ handle' = DeferClose(h)
    /\ pc' = "done"

\* Rows.All: for r.Rows.Next()
AllNext ==
    /\ pc = "all.next"
    /\ \E fail \in BOOLEAN :
          LET n == SqlNext(handle, fail) IN
          /\ handle' = n.h
          /\ pc' = IF n.ok THEN "all.scan" ELSE "all.err"
    /\ UNCHANGED <<call, ret, svars, rows, local, scans>>

\* Rows.All: the body of the loop
AllScan ==
    /\ pc = "all.scan"
    /\ \E conv \in BOOLEAN, k \in MapChoices :
          LET sc == RowsScan(ZeroT, conv, k) IN
          IF sc.err # NoErr
          THEN RowsReturn(<<>>, sc.err, Faulted(handle, sc.fault)) /\ UNCHANGED local
          ELSE /\ local' = [local EXCEPT !.list = Append(@, sc.t)]
               /\ pc' = "all.next"
               /\ UNCHANGED <<ret, handle>>
    /\ UNCHANGED <<call, svars, rows, scans>>

\* Rows.All: after the loop
AllFinish ==
    /\ pc = "all.err"
    /\ IF SqlErr(handle) # NoErr
       THEN RowsReturn(<<>>, SqlErr(handle), handle)
       ELSE \E cerr \in {NoErr, ErrClose} :
               LET c == SqlClose(handle, cerr) IN RowsReturn(local.list, c.err, c.h)
    /\ UNCHANGED <<call, svars, rows, local, scans>>

\* Rows.First: if !r.Rows.Next()
FirstNext ==
    /\ pc = "first.next"
    /\ \E fail \in BOOLEAN :
          LET n == SqlNext(handle, fail) IN
          IF n.ok
          THEN handle' = n.h /\ pc' = "first.scan" /\ UNCHANGED ret
          ELSE RowsReturn(local.t, ErrNoRows, n.h)
    /\ UNCHANGED <<call, svars, rows, local, scans>>

\* Rows.First: r.Scan(&t)
FirstScan ==
    /\ pc = "first.scan"
    /\ \E conv \in BOOLEAN, k \in MapChoices :
          LET sc == RowsScan(local.t, conv, k) IN
          /\ local' = [local EXCEPT !.t = sc.t]
          /\ IF sc.err # NoErr
             THEN RowsReturn(sc.t, sc.err, Faulted(handle, sc.fault))
             ELSE pc' = "first.err" /\ UNCHANGED <<ret, handle>>
    /\ UNCHANGED <<call, svars, rows, scans>>

\* Rows.First: r.Rows.Err() and r.Rows.Close()
FirstFinish ==
    /\ pc = "first.err"
    /\ IF SqlErr(handle) # NoErr
       THEN RowsReturn(local.t, SqlErr(handle), handle)
       ELSE \E cerr \in {NoErr, ErrClose} :
               LET c == SqlClose(handle, cerr) IN RowsReturn(local.t, c.err, c.h)
    /\ UNCHANGED <<call, svars, rows, local, scans>>

\* Rows.One: if !r.Rows.Next()
OneNext ==
    /\ pc = "one.next"
    /\ \E fail \in BOOLEAN :
          LET n == SqlNext(handle, fail) IN
          IF n.ok
          THEN handle' = n.h /\ pc' = "one.scan" /\ UNCHANGED ret
          ELSE RowsReturn(local.t, ErrNoRows, n.h)
    /\ UNCHANGED <<call, svars, rows, local, scans>>

\* Rows.One: r.Scan(&t)
OneScan ==
    /\ pc = "one.scan"
    /\ \E conv \in BOOLEAN, k \in MapChoices :
          LET sc == RowsScan(local.t, conv, k) IN
          /\ local' = [local EXCEPT !.t = sc.t]
          /\ IF sc.err # NoErr
             THEN RowsReturn(sc.t, sc.err, Faulted(handle, sc.fault))
             ELSE pc' = "one.probe" /\ UNCHANGED <<ret, handle>>
    /\ UNCHANGED <<call, svars, rows, scans>>

OneAfterProbeIgnored(more) == NoErr

\* Rows.One: what a second row means
OneAfterProbe(more) == IF more THEN ErrTooManyRows ELSE NoErr

\* Rows.One: if r.Rows.Next()
OneProbe ==
    /\ pc = "one.probe"
    /\ \E fail \in BOOLEAN :
          LET n == SqlNext(handle, fail) IN
          IF OneAfterProbe(n.ok) # NoErr
          THEN RowsReturn(local.t, OneAfterProbe(n.ok), n.h)
          ELSE handle' = n.h /\ pc' = "one.err" /\ UNCHANGED ret
    /\ UNCHANGED <<call, svars, rows, local, scans>>

\* Rows.One: r.Rows.Err() and r.Rows.Close()
OneFinish ==
    /\ pc = "one.err"
    /\ IF SqlErr(handle) # NoErr
       THEN RowsReturn(local.t, SqlErr(handle), handle)
       ELSE \E cerr \in {NoErr, ErrClose} :
               LET c == SqlClose(handle, cerr) IN RowsReturn(local.t, c.err, c.h)
    /\ UNCHANGED <<call, svars, rows, local, scans>>

QueryOps == {"Rows", "All", "First", "One"}
QueryStmts == {Stmt(<<"a", "?">>, <<>>), Expr("fail")}
QueryPlaceholders == {NoPlaceholder, Dollar, FailingPlaceholder}
DeclaredColumns == SUBSET {"a", "b"}

InitQuery ==
    /\ pc = "rows.build"
    /\ \E op \in QueryOps, st \in QueryStmts, ph \in QueryPlaceholders, d \in DeclaredColumns :
          call = [op |-> op, stmt |-> st, param |-> 1, ph |-> ph, columns |-> d]
    /\ ret = [val |-> 0, err |-> "pending"]
    /\ frames = <<>>
    /\ calls = 0
    /\ QueryIdle

NextQuery ==
    \/ RowsBuild
    \/ RowsQuery
    \/ RowsColumns
    \/ RowsBind
    \/ Cancel
    \/ AllNext
    \/ AllScan
    \/ AllFinish
    \/ FirstNext
    \/ FirstScan
    \/ FirstFinish
    \/ OneNext
    \/ OneScan
    \/ OneProbe
    \/ OneFinish

SpecQuery == InitQuery /\ [][NextQuery]_vars

\* the first row as the bound scanners decode it: every declared column
\* that the result reports holds its cell (the last one of a repeated name)
DecodedFirst ==
    IF call.columns = {} THEN Cell(1, 1)
    ELSE [n \in call.columns |->
            IF \E j \in 1..Len(handle.cols) : handle.cols[j] = n
            THEN Cell(1, CHOOSE j \in 1..Len(handle.cols) :
                            /\ handle.cols[j] = n
                            /\ \A k \in (j + 1)..Len(handle.cols) : handle.cols[k] # n)
            ELSE 0]

\* Rows.One ran on a cursor and returned, and neither the driver, the
\* context nor a scanner failed
C9_Case ==
    /\ pc = "done"
    /\ call.op = "One"
    /\ rows.live
    /\ handle.faults = {}

\* C9: One gives sql.ErrNoRows on a result set without rows, the decoded row
\* and no error on one of exactly one row, ErrTooManyRows on one of two or
\* more rows; and it never advances the cursor past the second row.
C9_One ==
    /\ C9_Case =>
          /\ handle.nrows = 0 => ret = [val |-> ZeroT, err |-> ErrNoRows]
          /\ handle.nrows = 1 => ret = [val |-> DecodedFirst, err |-> NoErr]
          /\ handle.nrows >= 2 => ret.err = ErrTooManyRows
    /\ (call.op = "One" /\ handle.live) => handle.pos <= 2

C9_Witness ==
    /\ C9_Case
    /\ handle.nrows = 1
    /\ handle.cols = <<"b", "a">>
    /\ call.columns = {"a", "b"}
    /\ ret = [val |-> [a |-> 12, b |-> 11], err |-> NoErr]

C9_WitnessTooMany ==
    /\ C9_Case
    /\ handle.nrows = 3
    /\ handle.pos = 2
    /\ ret.err = ErrTooManyRows

\* C10: whenever Query.All, Query.First or Query.One has returned and the
\* querier had handed out a result handle, the handle is closed.
C10_Closed ==
    (pc = "done" /\ call.op \in {"All", "First", "One"} /\ handle.live) => handle.closed

\* a return in the middle of the rows, where only the deferred Close closes
C10_Witness ==
    /\ pc = "done"
    /\ call.op \in {"All", "First", "One"}
    /\ handle.live
    /\ handle.closed
    /\ handle.pos < handle.nrows
    /\ handle.faults = {"map"}
    /\ ret.err = ErrMap

\* C11: an orchestration call never aborts, and when it has returned it
\* gives either a nil error or, beside the error, no populated result: the
\* nil cursor, the nil slice or the zero value of T.
C11_AsStated ==
    /\ pc # "panic"
    /\ (pc = "done" /\ ret.err # NoErr) => ret.val = ZeroResult

\* the abort: no column declared and a result that reports no column
C11_PanicReached ==
    /\ pc = "panic"
    /\ call.columns = {}
    /\ handle.cols = <<>>

\* One over two rows: the first row decoded, returned beside ErrTooManyRows
C11_PopulatedReached ==
    /\ pc = "done"
    /\ call.op = "One"
    /\ handle.live
    /\ handle.faults = {}
    /\ ret.err = ErrTooManyRows
    /\ ret.val = DecodedFirst
    /\ ret.val # ZeroT

\* row i as scanners bound by name decode it: the field of a declared name
\* holds the cell reported under that name, at whichever position the result
\* reports it, and the field of a name the result does not report stays zero
DecodedRow(i) ==
    [n \in call.columns |->
        IF \E j \in 1..Len(handle.cols) : handle.cols[j] = n
        THEN Cell(i, CHOOSE j \in 1..Len(handle.cols) :
                        /\ handle.cols[j] = n
                        /\ \A k \in (j + 1)..Len(handle.cols) : handle.cols[k] # n)
        ELSE 0]

\* All, First or One returned from a cursor with declared columns, and
\* neither the driver, the context nor a scanner failed
C12_Case ==
    /\ pc = "done"
    /\ call.op \in {"All", "First", "One"}
    /\ call.columns # {}
    /\ rows.live
    /\ handle.faults = {}

\* C12: with a non-empty declared scanner map every row decodes by reported
\* column name, whatever the order of the result's columns, and a reported
\* column without a declared scanner is dropped without an error.
C12_ByName ==
    C12_Case =>
        /\ call.op = "All" =>
              ret = [val |-> [i \in 1..handle.nrows |-> DecodedRow(i)], err |-> NoErr]
        /\ (call.op = "First" /\ handle.nrows >= 1) =>
              ret = [val |-> DecodedRow(1), err |-> NoErr]
        /\ (call.op = "One" /\ handle.nrows = 1) =>
              ret = [val |-> DecodedRow(1), err |-> NoErr]

\* the declared column second and an undeclared column first
C12_Witness ==
    /\ C12_Case
    /\ call.op = "All"
    /\ call.columns = {"a", "b"}
    /\ handle.cols = <<"x", "a">>
    /\ handle.nrows = 2
    /\ ret = [val |-> <<[a |-> 12, b |-> 0], [a |-> 22, b |-> 0]>>, err |-> NoErr]

\* the same two columns in the other order decode to the same fields
C12_WitnessSwapped ==
    /\ C12_Case
    /\ call.op = "First"
    /\ call.columns = {"a", "b"}
    /\ handle.cols = <<"a", "b">>
    /\ ret = [val |-> [a |-> 11, b |-> 12], err |-> NoErr]

\* C13: whenever ToSQL of a node returns the empty fragment and a nil error,
\* the argument list it returns is empty.
C13_AsStated ==
    (pc = "done" /\ ret.err = NoErr /\ ret.sql = <<>>) => ret.args = <<>>

\* an Expr node hands on what its closure returns
C13_StrayReached ==
    /\ pc = "done"
    /\ call.stmt = Expr("stray")
    /\ call.param = 1
    /\ ret = Ok(<<>>, <<1>>)

\* a template trims the one space its child wrote and keeps the argument
C13_BlankReached ==
    /\ pc = "done"
    /\ call.stmt = Stmt(<<"?">>, <<Expr("blank")>>)
    /\ call.param = 1
    /\ ret = Ok(<<>>, <<1>>)

\* Prefix, Join and List drop the arguments of a child that gave the empty
\* fragment, so the empty fragment they return carries none
C13_Composites ==
    (pc = "done" /\ call.stmt.kind \in {"prefix", "join", "list"}
        /\ ret.err = NoErr /\ ret.sql = <<>>) => ret.args = <<>>

\* every Expr or Values leaf of the tree returns, for every parameter, as
\* many arguments as its fragment has unescaped markers
RECURSIVE LeavesCount(_)
LeavesCount(s) ==
    CASE s.kind = "nil" -> TRUE
      [] s.kind \in {"expr", "values"} ->
            \A p \in Params :
                LET r == ToSQL(s, p) IN r.err # NoErr \/ CountMarkers(r.sql) = Len(r.args)
      [] s.kind = "stmt" -> \A i \in 1..Len(s.args) : LeavesCount(s.args[i])
      [] s.kind = "prefix" -> LeavesCount(s.stmt)
      [] s.kind = "join" -> \A i \in 1..Len(s.stmts) : LeavesCount(s.stmts[i])
      [] s.kind = "list" -> LeavesCount(s.stmt)

\* a tree of Template, Prefix, Join and List nodes was resolved without an
\* error, and its leaves count their arguments
C14_Case ==
    /\ pc = "done"
    /\ call.stmt.kind \in {"stmt", "prefix", "join", "list"}
    /\ LeavesCount(call.stmt)
    /\ ret.err = NoErr

\* C14: the fragment the root returns has exactly len(args) unescaped
\* markers, so that the positional rewrite numbers its placeholders 1 to
\* len(args).
C14_AsStated ==
    C14_Case =>
        /\ CountMarkers(ret.sql) = Len(ret.args)
        /\ PositionalReplacePlaceholders(<<":">>, ret.sql).sql
              = PositionalRef(<<":">>, ret.sql, 1)

\* two children joined by the empty separator: the marker that ends the
\* first and the marker that begins the second read as one doubled marker
C14_FusedReached ==
    /\ C14_Case
    /\ call.stmt = Join(<<>>, <<Expr("eq"), Stmt(<<"?">>, <<>>)>>)
    /\ call.param = 1
    /\ ret = Ok(<<"a", "?", "?">>, <<1, 1>>)
    /\ PositionalReplacePlaceholders(<<":">>, ret.sql).sql = <<"a", "?">>

\* what holds of Template, Prefix and List trees, and of Join with a
\* separator that is not empty
C14_Separated ==
    (C14_Case /\ (call.stmt.kind = "join" => call.stmt.sep # <<>>)) =>
        CountMarkers(ret.sql) = Len(ret.args)

\* the text of a template with its k-th, (k+1)-th, ... unescaped markers
\* resolved by the bindings of the same index: an empty child drops its
\* marker and one following space, and the next marker takes the next binding
RECURSIVE ByPosition(_, _, _, _)
ByPosition(s, t_args, param, k) ==
    IF Len(s) = 0 THEN Ok(<<>>, <<>>)
    ELSE IF Len(s) >= 2 /\ s[1] = "?" /\ s[2] = "?"
    THEN LET r == ByPosition(From(s, 2), t_args, param, k) IN Ok(<<"?", "?">> \o r.sql, r.args)
    ELSE IF s[1] = "?"
    THEN LET m == MarkerResult(t_args, param, k) IN
         IF m.sql = <<>>
         THEN ByPosition(IF Len(s) >= 2 /\ s[2] = " " THEN From(s, 2) ELSE Tail(s),
                         t_args, param, k + 1)
         ELSE LET r == ByPosition(Tail(s), t_args, param, k + 1) IN
              Ok(m.sql \o r.sql, m.args \o r.args)
    ELSE LET r == ByPosition(Tail(s), t_args, param, k) IN Ok(<<s[1]>> \o r.sql, r.args)

\* the bindings k, k + 1, ... appended to the text b, one space before each
\* fragment that is not empty
RECURSIVE Appended(_, _, _, _)
Appended(b, t_args, param, k) ==
    IF k > Len(t_args) THEN b
    ELSE LET c == ChildResult(t_args[k], param) IN
         IF c.sql = <<>> THEN Appended(b, t_args, param, k + 1)
         ELSE Appended(Ok((IF Len(b.sql) > 0 THEN b.sql \o <<" ">> ELSE b.sql) \o c.sql,
                          b.args \o c.args),
                       t_args, param, k + 1)

\* a template was resolved and no binding of it fails
C15_Case ==
    /\ TemplateDone
    /\ \A i \in 1..Len(call.stmt.args) : ChildResult(call.stmt.args[i], call.param).err = NoErr

\* C15: the i-th unescaped marker is resolved by the i-th binding, or as
\* unbound when that binding is missing or nil, whatever the earlier
\* bindings gave; only the bindings past the number of markers are appended.
C15_AsStated ==
    C15_Case =>
        LET placed == ByPosition(call.stmt.sql, call.stmt.args, call.param, 1)
            whole == Appended(placed, call.stmt.args, call.param,
                              CountMarkers(call.stmt.sql) + 1)
        IN  ret = Ok(TrimSpace(whole.sql), whole.args)

\* the second marker has no binding and is resolved by the first binding
\* again, which gave the empty fragment
C15_ReusedReached ==
    /\ C15_Case
    /\ call.stmt = Stmt(<<"?", "a", "?">>, <<Expr("none")>>)
    /\ call.param = 1
    /\ ret = Ok(<<"a">>, <<>>)

\* what holds when the bindings placed at markers give text or are nil
C15_NoEmptyPlaced ==
    (C15_Case /\ \A i \in 1..Len(call.stmt.args) :
                    (i <= CountMarkers(call.stmt.sql) /\ ~IsNil(call.stmt.args[i]))
                        => ChildResult(call.stmt.args[i], call.param).sql # <<>>) =>
        LET placed == ByPosition(call.stmt.sql, call.stmt.args, call.param, 1)
            whole == Appended(placed, call.stmt.args, call.param,
                              CountMarkers(call.stmt.sql) + 1)
        IN  ret = Ok(TrimSpace(whole.sql), whole.args)

\* how often the result reports the column name n
Reported(n) == Cardinality({j \in 1..Len(handle.cols) : handle.cols[j] = n})

\* Query.Rows has bound the scanners of a non-empty declared map
C16_Case ==
    /\ rows.live
    /\ call.columns # {}

\* C16 as stated: the factory of every declared name is invoked exactly
\* once in one execution, whatever column names the result reports.
C16_AsStated ==
    C16_Case => \A n \in call.columns : scans[n] = 1

\* C16, amended: the factory of a declared name is invoked once for each
\* time the result reports that name, and no more while the rows are read:
\* once for a name reported once, not at all for a name the result omits,
\* twice for a name reported twice.
C16_OncePerReportedColumn ==
    C16_Case =>
        /\ \A n \in call.columns : scans[n] = Reported(n)
        /\ \A n \in ColumnNames \ call.columns : scans[n] = 0

\* three rows were read from a result that reports a twice and omits b
C16_Witness ==
    /\ C16_Case
    /\ pc = "done"
    /\ call.op = "All"
    /\ call.columns = {"a", "b"}
    /\ handle.cols = <<"a", "x", "a">>
    /\ handle.nrows = 3
    /\ Len(ret.val) = 3
    /\ scans = [a |-> 2, b |-> 0, x |-> 0]

\* First or One returned from a cursor
C17_Case ==
    /\ pc = "done"
    /\ call.op \in {"First", "One"}
    /\ rows.live

\* C17: First and One return sql.ErrNoRows only for a result set without
\* rows; when the first advance of the cursor fails with an iteration error
\* they return that error.
C17_AsStated ==
    C17_Case =>
        /\ ret.err = ErrNoRows => (handle.nrows = 0 /\ SqlErr(handle) = NoErr)
        /\ (handle.pos = 0 /\ SqlErr(handle) # NoErr) => ret.err = SqlErr(handle)

\* the driver fails on the first advance over a result of two rows, and
\* First or One answers that there are no rows
C17_SwallowedReached ==
    /\ C17_Case
    /\ handle.nrows = 2
    /\ handle.pos = 0
    /\ handle.faults = {"iter"}
    /\ SqlErr(handle) = ErrDriver
    /\ ret = [val |-> ZeroT, err |-> ErrNoRows]

\* Rows.All asks r.Rows.Err() after its loop and returns the iteration error
C17_AllPassesOn ==
    (pc = "done" /\ call.op = "All" /\ rows.live /\ SqlErr(handle) # NoErr) =>
        ret = [val |-> <<>>, err |-> SqlErr(handle)]

====
